---- MODULE Spec2Model ----
(***************************************************************************)
(* Model of the electron-bot logging cogs and the sudo command group.      *)
(*                                                                         *)
(*   bot/cogs/logging/server_log.py  ServerLog: channel-update diff embeds *)
(*   bot/cogs/logging/voice_log.py   MessageLog: voice-state log embeds    *)
(*   bot/cogs/sudo.py                Sudo: owner-only lifecycle commands   *)
(*                                                                         *)
(* Three specifications share the variables:                               *)
(*   SpecFormat  make_channel_update_embed applied to one before/after     *)
(*               pair of channel snapshots drawn from bounded sets;        *)
(*   Spec        the event listeners, several events in flight, each       *)
(*               handler suspending at its awaits;                         *)
(*   SpecSudo    invocations of the sudo subcommands.                      *)
(*                                                                         *)
(* Python values are records [t |-> type name, v |-> payload] so that      *)
(* None, str, int, bool, channel objects and bound methods stay apart.     *)
(* Emoji and the arrow of the permission lines are written with their      *)
(* ASCII names (:white_check_mark: for U+2705, :x: for U+274C,             *)
(* :white_large_square: for U+2B1C, -> for U+279C).                        *)
(***************************************************************************)
EXTENDS Integers, Sequences, FiniteSets, TLC

VARIABLES
    methodEqByIdentity, \* interpreter: bound methods compare by identity of __self__
    fmt,                \* SpecFormat: one call of make_channel_update_embed
    store,              \* LogChannels table of the guild: category -> channel id
    guildChannels,      \* ids of the channels guild.get_channel can resolve
    handlers,           \* Spec: the listener invocations in flight, by event
    outbox,             \* Spec: messages handed to Channel.send
    bot                 \* SpecSudo: bot process, extensions, replies

vars == <<methodEqByIdentity, fmt, store, guildChannels, handlers, outbox, bot>>

----------------------------------------------------------------------------
(* Python values *)

PyNone == [t |-> "NoneType", v |-> "None"]
PyStr(s) == [t |-> "str", v |-> s]
PyInt(n) == [t |-> "int", v |-> n]
PyBool(b) == [t |-> "bool", v |-> b]
\* a CategoryChannel object; discord.py compares channels by id, str() is the name
PyCategory(id) == [t |-> "CategoryChannel", v |-> id]
\* a bound method ch.is_nsfw: its __self__ is the snapshot object
PyMethod(ch) == [t |-> "method", v |-> ch.obj]

CategoryName(idstr) == "category-" \o idstr

\* format(value) inside an f-string
Str(x) ==
    CASE x.t = "CategoryChannel" -> CategoryName(x.v)
      [] x.t = "method" -> "<bound method CategoryChannel.is_nsfw of " \o x.v \o ">"
      [] x.t = "int" -> ToString(x.v)
      [] x.t = "bool" -> IF x.v THEN "True" ELSE "False"
      [] OTHER -> x.v

\* before_param != after_param (server_log.py:121). Two bound methods of the two
\* snapshots of one channel: CPython >= 3.8 compares __self__ by identity (the
\* snapshots are distinct objects, the old one a copy), earlier versions by ==,
\* which discord.py defines as equality of the channel ids.
PyNe(a, b) ==
    IF a.t = "method" /\ b.t = "method"
    THEN IF methodEqByIdentity THEN a.v # b.v ELSE FALSE
    ELSE a.t # b.t \/ a.v # b.v

----------------------------------------------------------------------------
(* Bounded domains of the snapshots *)

Kinds == {"TextChannel", "VoiceChannel", "CategoryChannel", "StoreChannel"}
Names == {"general", "chat"}
Topics == {PyNone, PyStr("rules")}
Slowmodes == {0, 5, 90}
Categories == {PyNone, PyCategory("7")}
Bitrates == {64000, 64500, 65500}
UserLimits == {0, 5}

Subjects == {"X", "Y"}
\* PermissionOverwrite iterates its permissions in one fixed order
PermOrder == <<"read_messages", "send_messages">>
Perms == {PermOrder[i] : i \in 1..Len(PermOrder)}
Tri == {"True", "False", "None"}
\* an overwrite mapping: the subjects that have an overwrite, each with its flags
OverwriteMaps == UNION {[S -> [Perms -> Tri]] : S \in SUBSET Subjects}

----------------------------------------------------------------------------
(* Embeds *)

\* "no embed": the None a formatter returns
NoEmbed ==
    [type |-> "None", title |-> "", description |-> <<>>,
     before |-> <<>>, after |-> <<>>, timestamp |-> FALSE]

\* description, before and after are the lines that "\n".join puts in one string;
\* before and after are the values of the embed fields "Before" and "After"
Embed(title, description, before, after) ==
    [type |-> "Embed", title |-> title, description |-> description,
     before |-> before, after |-> after, timestamp |-> FALSE]

Returned(embed) == [raised |-> "", embed |-> embed]
Raised(exc) == [raised |-> exc, embed |-> NoEmbed]

Mention(ch) == "<#" \o ch.id \o ">"
SubjectMention(s) == "<@&" \o s \o ">"

----------------------------------------------------------------------------
(* Field diff: ServerLog._specific_channel_update_embed *)

\* bot.utils.time.stringify_duration, seconds -> "Xm Ys"
stringify_duration(time) ==
    ToString(time \div 60) \o "m " \o ToString(time % 60) \o "s"

\* round(): half to even
round(num, den) ==
    LET q == num \div den
        r == num % den
    IN  IF 2 * r < den THEN q
        ELSE IF 2 * r > den THEN q + 1
        ELSE IF q % 2 = 0 THEN q ELSE q + 1

\* slowmode_readable without its special case for 0
slowmode_readable_without_zero_case(time) == PyStr(stringify_duration(time.v))

slowmode_readable(time) ==
    IF time.v # 0 THEN PyStr(stringify_duration(time.v)) ELSE PyNone

readable_bitrate(bps) == PyStr(ToString(round(bps.v, 1000)) \o "kbps")

\* lambda is_nsfw_func: is_nsfw_func()
call_is_nsfw(ch) == PyBool(ch.nsfw)

getattr(ch, parameter_name) ==
    CASE parameter_name = "name" -> PyStr(ch.name)
      [] parameter_name = "topic" -> ch.topic
      [] parameter_name = "is_nsfw" -> PyMethod(ch)
      [] parameter_name = "slowmode_delay" -> PyInt(ch.slowmode_delay)
      [] parameter_name = "category" -> ch.category
      [] parameter_name = "bitrate" -> PyInt(ch.bitrate)
      [] parameter_name = "user_limit" -> PyInt(ch.user_limit)

\* one entry of check_params: key, optional callable, label
Param(key, func, label) == [key |-> key, func |-> func, label |-> label]

TextParams ==
    << Param("name", "", "Name"),
       Param("topic", "", "Topic"),
       Param("is_nsfw", "call", "NSFW"),
       Param("slowmode_delay", "slowmode_readable", "Slowmode delay"),
       Param("category", "", "Category") >>

VoiceParams ==
    << Param("name", "", "Name"),
       Param("bitrate", "readable_bitrate", "Bitrate"),
       Param("user_limit", "", "User limit"),
       Param("category", "", "Category") >>

CategoryParams ==
    << Param("name", "", "Name"),
       Param("is_nsfw", "", "NSFW") >>

\* the value of one parameter as the loop compares and prints it
ParamValue(ch, p) ==
    CASE p.func = "" -> getattr(ch, p.key)
      [] p.func = "call" -> call_is_nsfw(ch)
      [] p.func = "slowmode_readable" -> slowmode_readable(getattr(ch, p.key))
      [] p.func = "readable_bitrate" -> readable_bitrate(getattr(ch, p.key))

FieldLine(ch, p) == "**" \o p.label \o ":** " \o Str(ParamValue(ch, p))

_specific_channel_update_embed(channel_before, channel_after, title, check_params) ==
    LET changed == SelectSeq(check_params,
                       LAMBDA p : PyNe(ParamValue(channel_before, p),
                                       ParamValue(channel_after, p)))
        field_before_text == [i \in 1..Len(changed) |-> FieldLine(channel_before, changed[i])]
        field_after_text == [i \in 1..Len(changed) |-> FieldLine(channel_after, changed[i])]
    IN  IF Len(field_after_text) = 0
        THEN NoEmbed
        ELSE Embed(title, << "**Channel:** " \o Mention(channel_after) >>,
                   field_before_text, field_after_text)

----------------------------------------------------------------------------
(* Permission diff: ServerLog._channel_permissions_diff_embed *)

\* the overwrite of the channel for one subject; a subject without one gets the
\* platform's default PermissionOverwrite(), every permission unset
overwrites_for(ch, s) ==
    IF s \in DOMAIN ch.overwrites THEN ch.overwrites[s] ELSE [p \in Perms |-> "None"]

\* perm_name.replace("_", " ").capitalize()
PermName(perm) ==
    CASE perm = "read_messages" -> "Read messages"
      [] perm = "send_messages" -> "Send messages"

\* the symbol chosen by truthiness: False is shown like an unset permission
Emoji_by_truthiness(value) ==
    IF value = "True" THEN ":white_check_mark:" ELSE ":white_large_square:"

Emoji(value) ==
    IF value = "True" THEN ":white_check_mark:"
    ELSE IF value = "False" THEN ":x:"
    ELSE ":white_large_square:"

\* the inline-code quotes around the permission name are left out
PermLine(perm, before_value, after_value) ==
    "**" \o PermName(perm) \o ":** " \o Emoji(before_value) \o " -> " \o Emoji(after_value)

SubjectHeader(s) == "**Overwrite changes for " \o SubjectMention(s) \o ":**"

\* the lines one iteration of the loop over all_overwrites appends
SubjectLines(channel_before, channel_after, overwrite_for) ==
    LET before_overwrites == overwrites_for(channel_before, overwrite_for)
        after_overwrites == overwrites_for(channel_after, overwrite_for)
        changed == SelectSeq(PermOrder,
                       LAMBDA perm : before_overwrites[perm] # after_overwrites[perm])
    IN  IF before_overwrites = after_overwrites
        THEN <<>>
        ELSE << SubjectHeader(overwrite_for) >> \o
             [i \in 1..Len(changed) |->
                 PermLine(changed[i], before_overwrites[changed[i]],
                          after_overwrites[changed[i]])]

\* the subjects of either mapping
all_overwrites(channel_before, channel_after) ==
    (DOMAIN channel_before.overwrites) \cup (DOMAIN channel_after.overwrites)

\* the orders in which a set can be iterated
Orders(S) ==
    {o \in [1..Cardinality(S) -> S] : \A i, j \in 1..Cardinality(S) : o[i] = o[j] => i = j}

RECURSIVE EmbedLines(_, _, _)
EmbedLines(channel_before, channel_after, order) ==
    IF order = <<>> THEN <<>>
    ELSE SubjectLines(channel_before, channel_after, Head(order))
         \o EmbedLines(channel_before, channel_after, Tail(order))

KnownKinds == {"TextChannel", "VoiceChannel", "CategoryChannel"}

ChannelType(kind) ==
    CASE kind = "TextChannel" -> "Text channel"
      [] kind = "VoiceChannel" -> "Voice channel"
      [] kind = "CategoryChannel" -> "Category channel"

\* order: the order in which the set all_overwrites is iterated.
\* channel_type is assigned only for the three known kinds; building the title
\* with it unassigned raises UnboundLocalError.
_channel_permissions_diff_embed(channel_before, channel_after, order) ==
    LET embed_lines == EmbedLines(channel_before, channel_after, order)
    IN  IF Len(embed_lines) = 0
        THEN Returned(NoEmbed)
        ELSE IF channel_before.kind \notin KnownKinds
        THEN Raised("UnboundLocalError")
        ELSE Returned(Embed(ChannelType(channel_before.kind) \o " permissions updated",
                 << Mention(channel_after) \o " permissions have been updated.", "" >>
                     \o embed_lines,
                 <<>>, <<>>))

----------------------------------------------------------------------------
(* ServerLog.make_channel_update_embed *)

Timestamped(embed) ==
    IF embed.type # "None" THEN [embed EXCEPT !.timestamp = TRUE] ELSE embed

\* make_channel_update_embed that never diffs the fields once the overwrite
\* mappings differ
make_channel_update_embed_skipping_fields(channel_before, channel_after, order) ==
    IF channel_before.overwrites # channel_after.overwrites
    THEN LET perm == _channel_permissions_diff_embed(channel_before, channel_after, order)
         IN  IF perm.raised # "" THEN perm ELSE Returned(Timestamped(perm.embed))
    ELSE LET title == CASE channel_before.kind = "TextChannel" -> "Text Channel updated"
                        [] channel_before.kind = "VoiceChannel" -> "Voice Channel updated"
                        [] OTHER -> "Category Channel updated"
             params == CASE channel_before.kind = "TextChannel" -> TextParams
                         [] channel_before.kind = "VoiceChannel" -> VoiceParams
                         [] OTHER -> CategoryParams
         IN  IF channel_before.kind \in KnownKinds
             THEN Returned(Timestamped(_specific_channel_update_embed(
                      channel_before, channel_after, title, params)))
             ELSE Returned(NoEmbed)

make_channel_update_embed(channel_before, channel_after, order) ==
    LET perm == IF channel_before.overwrites # channel_after.overwrites
                THEN _channel_permissions_diff_embed(channel_before, channel_after, order)
                ELSE Returned(NoEmbed)
        embed0 == perm.embed
        embed1 == IF channel_before.kind = "TextChannel" /\ embed0.type = "None"
                  THEN _specific_channel_update_embed(channel_before, channel_after,
                           "Text Channel updated", TextParams)
                  ELSE embed0
        embed2 == IF channel_before.kind = "VoiceChannel" /\ embed1.type = "None"
                  THEN _specific_channel_update_embed(channel_before, channel_after,
                           "Voice Channel updated", VoiceParams)
                  ELSE embed1
        embed3 == IF channel_before.kind = "CategoryChannel" /\ embed2.type = "None"
                  THEN _specific_channel_update_embed(channel_before, channel_after,
                           "Category Channel updated", CategoryParams)
                  ELSE embed2
    IN  IF perm.raised # "" THEN perm ELSE Returned(Timestamped(embed3))

----------------------------------------------------------------------------
(* Snapshots delivered with a channel-update event *)

ChannelId == "42"

\* a snapshot of the channel; obj tells the old object (a copy) from the live one
Snapshot(kind, obj, name, topic, nsfw, slowmode_delay, category, bitrate, user_limit, ow) ==
    [kind |-> kind, id |-> ChannelId, obj |-> obj, name |-> name, topic |-> topic,
     nsfw |-> nsfw, slowmode_delay |-> slowmode_delay, category |-> category,
     bitrate |-> bitrate, user_limit |-> user_limit, overwrites |-> ow]

\* the snapshots of one kind; an attribute the kind's field list never reads is fixed
Snapshots(kind, obj, names, topics, nsfws, slowmodes, categories, bitrates, limits, ows) ==
    CASE kind = "TextChannel" ->
           {Snapshot(kind, obj, n, t, f, s, c, 64000, 0, o) :
               n \in names, t \in topics, f \in nsfws, s \in slowmodes,
               c \in categories, o \in ows}
      [] kind = "VoiceChannel" ->
           {Snapshot(kind, obj, n, PyNone, FALSE, 0, c, b, u, o) :
               n \in names, c \in categories, b \in bitrates, u \in limits, o \in ows}
      [] kind = "CategoryChannel" ->
           {Snapshot(kind, obj, n, PyNone, f, 0, PyNone, 64000, 0, o) :
               n \in names, f \in nsfws, o \in ows}
      [] OTHER ->
           {Snapshot(kind, obj, n, PyNone, FALSE, 0, PyNone, 64000, 0, o) :
               n \in names, o \in ows}

\* the overwrite mappings a channel has before the update
BeforeOverwrites ==
    { <<>>,
      [s \in {"Y"} |-> [p \in Perms |-> "None"]],
      [s \in {"X"} |-> [p \in Perms |-> IF p = "read_messages" THEN "True" ELSE "None"]],
      [s \in {"X", "Y"} |-> [p \in Perms |->
          IF s = "X" THEN "True" ELSE IF p = "send_messages" THEN "False" ELSE "None"]] }

BeforeSnapshots(kind) ==
    Snapshots(kind, "old", {"general"}, Topics, {FALSE}, {0, 5}, Categories,
              {64000, 64500}, {0}, BeforeOverwrites)

AfterSnapshots(kind) ==
    Snapshots(kind, "new", Names, Topics, BOOLEAN, Slowmodes, Categories,
              Bitrates, UserLimits, OverwriteMaps)

----------------------------------------------------------------------------
(* SpecFormat: one call of make_channel_update_embed *)

IdleFmt == [pc |-> "idle", before |-> <<>>, after |-> <<>>, result |-> Returned(NoEmbed)]
\* the bot before any sudo command: running, every extension of the list loaded
IdleBot ==
    [closed |-> FALSE, started |-> FALSE,
     loaded |-> {"bot.cogs.sudo", "bot.cogs.logging.server_log", "bot.cogs.logging.voice_log"},
     author |-> 0, command |-> "", replies |-> <<>>]

InitFormat ==
    /\ methodEqByIdentity \in BOOLEAN
    /\ \E kind \in Kinds :
         \E channel_before \in BeforeSnapshots(kind), channel_after \in AfterSnapshots(kind) :
            fmt = [pc |-> "call", before |-> channel_before, after |-> channel_after,
                   result |-> Returned(NoEmbed)]
    /\ store = <<>>
    /\ guildChannels = {}
    /\ handlers = <<>>
    /\ outbox = {}
    /\ bot = IdleBot

\* the call returns or raises; the iteration order of the set of subjects is free
Format ==
    /\ fmt.pc = "call"
    /\ \E order \in Orders(all_overwrites(fmt.before, fmt.after)) :
         LET r == make_channel_update_embed(fmt.before, fmt.after, order)
         IN  fmt' = [fmt EXCEPT !.pc = IF r.raised # "" THEN "raised" ELSE "returned",
                                !.result = r]
    /\ UNCHANGED <<methodEqByIdentity, store, guildChannels, handlers, outbox, bot>>

NextFormat == Format

SpecFormat == InitFormat /\ [][NextFormat]_vars

----------------------------------------------------------------------------
(* What the claims about the formatter speak of *)

Range(seq) == {seq[i] : i \in 1..Len(seq)}

FmtDone == fmt.pc \in {"returned", "raised"}
FmtEmbed == fmt.result.embed

\* the labels of the declared fields of a kind, in declaration order
DeclaredFields(kind) ==
    CASE kind = "TextChannel" -> <<"Name", "Topic", "NSFW", "Slowmode delay", "Category">>
      [] kind = "VoiceChannel" -> <<"Name", "Bitrate", "User limit", "Category">>
      [] kind = "CategoryChannel" -> <<"Name", "NSFW">>
      [] OTHER -> <<>>

\* the value of a declared field as the diff is to show it: the NSFW flag, the
\* slowmode delay as a duration or None for 0, the bitrate in kbps
Shown(ch, label) ==
    CASE label = "Name" -> ch.name
      [] label = "Topic" -> IF ch.topic = PyNone THEN "None" ELSE ch.topic.v
      [] label = "NSFW" -> IF ch.nsfw THEN "True" ELSE "False"
      [] label = "Slowmode delay" ->
           IF ch.slowmode_delay = 0 THEN "None" ELSE stringify_duration(ch.slowmode_delay)
      [] label = "Category" ->
           IF ch.category = PyNone THEN "None" ELSE CategoryName(ch.category.v)
      [] label = "Bitrate" -> ToString(round(ch.bitrate, 1000)) \o "kbps"
      [] label = "User limit" -> ToString(ch.user_limit)

ChangedFields(b, a) ==
    SelectSeq(DeclaredFields(b.kind), LAMBDA label : Shown(b, label) # Shown(a, label))

ExpectedLines(ch, labels) ==
    [i \in 1..Len(labels) |-> "**" \o labels[i] \o ":** " \o Shown(ch, labels[i])]

FieldTitles == {"Text Channel updated", "Voice Channel updated", "Category Channel updated"}
IsFieldEmbed(e) == e.type = "Embed" /\ e.title \in FieldTitles
IsPermEmbed(e) == e.type = "Embed" /\ e.title \notin FieldTitles

\* the raw attributes of the two snapshots agree
SameAttributes(b, a) ==
    /\ b.name = a.name /\ b.topic = a.topic /\ b.nsfw = a.nsfw
    /\ b.slowmode_delay = a.slowmode_delay /\ b.category = a.category
    /\ b.bitrate = a.bitrate /\ b.user_limit = a.user_limit

\* C1: identical snapshots (no declared field, no permission overwrite differs)
\* of any channel kind give no embed.
C1_IdenticalSnapshotsGiveNothing ==
    (FmtDone /\ fmt.before.overwrites = fmt.after.overwrites
             /\ SameAttributes(fmt.before, fmt.after))
        => (fmt.pc = "returned" /\ FmtEmbed.type = "None")

\* C2: for two snapshots of one known kind with equal overwrites the embed has one
\* Before line and one After line per declared field whose shown value differs,
\* in declaration order, and no other line; no differing field, no embed.
C2_OneLinePerChangedField ==
    (FmtDone /\ fmt.before.kind \in KnownKinds
             /\ fmt.before.overwrites = fmt.after.overwrites)
        => LET labels == ChangedFields(fmt.before, fmt.after)
           IN  /\ fmt.pc = "returned"
               /\ Len(FmtEmbed.before) = Len(FmtEmbed.after)
               /\ FmtEmbed.before = ExpectedLines(fmt.before, labels)
               /\ FmtEmbed.after = ExpectedLines(fmt.after, labels)
               /\ (labels = <<>>) <=> (FmtEmbed.type = "None")

\* a permission of a subject whose tri-state value is not the same in both snapshots
PermChanged(b, a, s, perm) == overwrites_for(b, s)[perm] # overwrites_for(a, s)[perm]
ChangedSubjects(b, a) ==
    {s \in all_overwrites(b, a) : \E perm \in Perms : PermChanged(b, a, s, perm)}

Symbol(value) ==
    CASE value = "True" -> ":white_check_mark:"
      [] value = "False" -> ":x:"
      [] value = "None" -> ":white_large_square:"

\* header of a subject, then one line per changed permission
ExpectedBlock(b, a, s) ==
    LET perms == SelectSeq(PermOrder, LAMBDA perm : PermChanged(b, a, s, perm))
    IN  << "**Overwrite changes for <@&" \o s \o ">:**" >> \o
        [i \in 1..Len(perms) |->
            "**" \o PermName(perms[i]) \o ":** " \o Symbol(overwrites_for(b, s)[perms[i]])
                 \o " -> " \o Symbol(overwrites_for(a, s)[perms[i]])]

RECURSIVE ExpectedBlocks(_, _, _)
ExpectedBlocks(b, a, order) ==
    IF order = <<>> THEN <<>>
    ELSE ExpectedBlock(b, a, Head(order)) \o ExpectedBlocks(b, a, Tail(order))

\* the lines of a permission embed after its two opening lines
PermBody(e) == SubSeq(e.description, 3, Len(e.description))

\* C5: the permission-diff embed has one header per subject whose overwrite
\* differs and none for an unchanged one, and under each header one line per
\* permission whose value changed, "name: before-symbol -> after-symbol"; for a
\* known kind it is returned whenever some permission changed.
C5_PermissionDiffLines ==
    FmtDone =>
        LET b == fmt.before
            a == fmt.after
        IN  /\ (fmt.pc = "returned" /\ IsPermEmbed(FmtEmbed)) =>
                  \E order \in Orders(ChangedSubjects(b, a)) :
                     PermBody(FmtEmbed) = ExpectedBlocks(b, a, order)
            /\ (b.kind \in KnownKinds /\ ChangedSubjects(b, a) # {}) =>
                  (fmt.pc = "returned" /\ IsPermEmbed(FmtEmbed))
            /\ ( /\ b.kind \in KnownKinds
                 /\ "X" \in DOMAIN b.overwrites /\ "Y" \in DOMAIN b.overwrites
                 /\ a.overwrites = [b.overwrites EXCEPT !["Y"]["send_messages"] = "True"]
                 /\ b.overwrites["Y"]["send_messages"] = "False" ) =>
                  PermBody(FmtEmbed) =
                     << "**Overwrite changes for <@&Y>:**",
                        "**Send messages:** :x: -> :white_check_mark:" >>

C5_Witness ==
    /\ fmt.pc = "returned" /\ IsPermEmbed(FmtEmbed)
    /\ "X" \in DOMAIN fmt.before.overwrites /\ "X" \in DOMAIN fmt.after.overwrites
    /\ overwrites_for(fmt.before, "X") = overwrites_for(fmt.after, "X")
    /\ overwrites_for(fmt.before, "Y")["send_messages"] = "False"
    /\ overwrites_for(fmt.after, "Y")["send_messages"] = "True"
    /\ Len(PermBody(FmtEmbed)) = 2

\* C7: the formatter never raises: for every kind and every pair of snapshots it
\* returns an embed or nothing, and for an unknown kind with no permission change
\* it returns nothing.
C7_FormatterNeverRaises ==
    FmtDone =>
        /\ fmt.pc = "returned"
        /\ (fmt.before.kind \notin KnownKinds /\ ChangedSubjects(fmt.before, fmt.after) = {})
              => FmtEmbed.type = "None"

SlowmodeLine(shown) == "**Slowmode delay:** " \o shown
SlowmodeLines == {SlowmodeLine(d) : d \in {"None", "0s", "0m 0s"}
                                        \cup {stringify_duration(t) : t \in Slowmodes}}

\* C9: text channels: an unchanged slowmode delay (0 to 0 too) gives no slowmode
\* line; a change between 0 and a nonzero delay shows the 0 as None.
C9_SlowmodeZeroIsNone ==
    (FmtDone /\ fmt.before.kind = "TextChannel") =>
        LET b == fmt.before
            a == fmt.after
            lines == Range(FmtEmbed.before) \cup Range(FmtEmbed.after)
        IN  /\ b.slowmode_delay = a.slowmode_delay => lines \cap SlowmodeLines = {}
            /\ (IsFieldEmbed(FmtEmbed) /\ b.slowmode_delay = 0 /\ a.slowmode_delay # 0) =>
                  /\ Range(FmtEmbed.before) \cap SlowmodeLines = {SlowmodeLine("None")}
                  /\ SlowmodeLine(stringify_duration(a.slowmode_delay)) \in Range(FmtEmbed.after)
            /\ (IsFieldEmbed(FmtEmbed) /\ b.slowmode_delay # 0 /\ a.slowmode_delay = 0) =>
                  /\ Range(FmtEmbed.after) \cap SlowmodeLines = {SlowmodeLine("None")}
                  /\ SlowmodeLine(stringify_duration(b.slowmode_delay)) \in Range(FmtEmbed.before)
            /\ (b.overwrites = a.overwrites /\ b.slowmode_delay # a.slowmode_delay
                   /\ 0 \in {b.slowmode_delay, a.slowmode_delay}) => IsFieldEmbed(FmtEmbed)

C9_Witness ==
    /\ fmt.pc = "returned" /\ fmt.before.kind = "TextChannel"
    /\ fmt.before.slowmode_delay = 5 /\ fmt.after.slowmode_delay = 0
    /\ SlowmodeLine("None") \in Range(FmtEmbed.after)

\* C10 as stated: whenever the overwrite mappings differ the result is the
\* permission-diff embed or nothing, never a field-diff (Before/After) embed.
C10_NeverFieldDiffWhenOverwritesDiffer ==
    (FmtDone /\ fmt.before.overwrites # fmt.after.overwrites)
        => ~IsFieldEmbed(FmtEmbed)

\* C10 amended: with differing overwrite mappings the result is never a
\* field-diff embed when some permission changed (a known kind gets the
\* permission-diff embed); when none changed (only empty overrides came or went)
\* field-diffing still runs, and the result is that of the same snapshots with
\* equal overwrite mappings.
C10_FieldDiffOnlyWithoutPermissionLines ==
    (FmtDone /\ fmt.before.overwrites # fmt.after.overwrites) =>
        LET b == fmt.before
            a == fmt.after
        IN  /\ ChangedSubjects(b, a) # {} =>
                  /\ ~IsFieldEmbed(FmtEmbed)
                  /\ b.kind \in KnownKinds => IsPermEmbed(FmtEmbed)
            /\ ChangedSubjects(b, a) = {} =>
                  /\ fmt.pc = "returned"
                  /\ ~IsPermEmbed(FmtEmbed)
                  /\ fmt.result =
                        make_channel_update_embed(b, [a EXCEPT !.overwrites = b.overwrites], <<>>)
                  /\ (b.kind \in {"TextChannel", "VoiceChannel"} /\ ChangedFields(b, a) # <<>>)
                        => /\ IsFieldEmbed(FmtEmbed)
                           /\ FmtEmbed.before = ExpectedLines(b, ChangedFields(b, a))

C10_Witness ==
    /\ fmt.pc = "returned"
    /\ fmt.before.overwrites # fmt.after.overwrites
    /\ ChangedSubjects(fmt.before, fmt.after) = {}
    /\ fmt.before.name # fmt.after.name
    /\ FmtEmbed.title = "Text Channel updated"

----------------------------------------------------------------------------
(* Spec: the event listeners *)

MaxEvents == 2
EventIds == 1..MaxEvents

ChannelIds == {1, 2}
\* the id the store returns for a guild with no log channel configured
NoChannel == 0
LogCategories == {"server_log", "voice_log"}

\* LogChannels.get_log_channel(engine, category, guild)
get_log_channel(category) == store[category]

\* int() of an id the store returns as an integer
int(id) == id

\* guild.get_channel(id): the channel, or None (the empty set) if the guild has none
get_channel(id) == {id} \cap guildChannels

IdleHandler ==
    [pc |-> "idle", cog |-> "", embed |-> NoEmbed, log_id |-> NoChannel,
     channel |-> {}, sends |-> 0, ret |-> "", exc |-> ""]

\* the channel updates the platform delivers, (before, after) pairs: nothing
\* changed, a text channel renamed, a permission granted on a store channel
YCanSend == [s \in {"Y"} |-> [p \in Perms |-> IF p = "send_messages" THEN "True" ELSE "None"]]
ChannelUpdates ==
    { << Snapshot("TextChannel", "old", "general", PyNone, FALSE, 0, PyNone, 64000, 0, <<>>),
         Snapshot("TextChannel", "new", n, PyNone, FALSE, 0, PyNone, 64000, 0, <<>>) >>
         : n \in Names }
    \cup
    { << Snapshot("StoreChannel", "old", "general", PyNone, FALSE, 0, PyNone, 64000, 0, <<>>),
         Snapshot("StoreChannel", "new", "general", PyNone, FALSE, 0, PyNone, 64000, 0, YCanSend) >> }

\* voice states of a member
VoiceState(afk, channel, deaf, mute, self_mute) ==
    [afk |-> afk, channel |-> channel, deaf |-> deaf, mute |-> mute, self_mute |-> self_mute]
BaseVoice == VoiceState(FALSE, PyStr("lobby"), FALSE, FALSE, FALSE)
\* the voice-state updates delivered: the member goes AFK, or only mutes themself
\* (a client action, not logged)
VoiceUpdates ==
    { <<BaseVoice, [BaseVoice EXCEPT !.afk = TRUE]>>,
      <<BaseVoice, [BaseVoice EXCEPT !.self_mute = TRUE]>> }

MemberMention == "<@7>"

\* the embed on_voice_state_update builds, NoEmbed on its early return
VoiceEmbed(before, after) ==
    IF before.afk # after.afk
    THEN Embed(IF after.afk THEN "User went AFK" ELSE "User is no longer AFK",
               << "**User:** " \o MemberMention >>, <<>>, <<>>)
    ELSE IF before.channel # after.channel
    THEN Embed(IF after.channel # PyNone THEN "User changed channels"
                                         ELSE "User left voice channel",
               IF after.channel # PyNone
               THEN << "**User:** " \o MemberMention,
                       "**Channel:** " \o Str(before.channel),
                       "**New Channel:** " \o Str(after.channel) >>
               ELSE <<>>,
               <<>>, <<>>)
    ELSE IF before.deaf # after.deaf
    THEN Embed(IF after.deaf THEN "User deafened" ELSE "User undeafened",
               << "**User:** " \o MemberMention >>, <<>>, <<>>)
    ELSE IF before.mute # after.mute
    THEN Embed(IF after.mute THEN "User silenced" ELSE "User unsilenced",
               << "**User:** " \o MemberMention >>, <<>>, <<>>)
    ELSE NoEmbed

\* no category channel is among ChannelUpdates, so the comparison of bound methods
\* plays no part here
Init ==
    /\ methodEqByIdentity = TRUE
    /\ fmt = IdleFmt
    /\ store \in [LogCategories -> ChannelIds \cup {NoChannel}]
    /\ guildChannels \in SUBSET ChannelIds
    /\ handlers = [e \in EventIds |-> IdleHandler]
    /\ outbox = {}
    /\ bot = IdleBot

\* a handler reaches "await self.send_log(...)": send_log starts and suspends in
\* "await LogChannels.get_log_channel(...)"
CallSendLog(e, cog, embed) ==
    handlers' = [handlers EXCEPT ![e] = [IdleHandler EXCEPT
                    !.pc = "get_log_channel", !.cog = cog, !.embed = embed]]

Finish(e, cog, ret) ==
    handlers' = [handlers EXCEPT ![e] = [@ EXCEPT !.pc = "done", !.cog = cog, !.ret = ret]]

Raise(e, cog, exc) ==
    handlers' = [handlers EXCEPT ![e] = [@ EXCEPT !.pc = "raised", !.cog = cog, !.exc = exc]]

\* on_guild_channel_update without its "if embed is None: return"
on_guild_channel_update_without_return(e, channel_before, channel_after, order) ==
    /\ handlers[e].pc = "idle"
    /\ LET r == make_channel_update_embed(channel_before, channel_after, order)
       IN  IF r.raised # "" THEN Raise(e, "server_log", r.raised)
           ELSE CallSendLog(e, "server_log", r.embed)
    /\ UNCHANGED <<methodEqByIdentity, fmt, store, guildChannels, outbox, bot>>

\* ServerLog.on_guild_channel_update, up to its first await
on_guild_channel_update(e, channel_before, channel_after, order) ==
    /\ handlers[e].pc = "idle"
    /\ LET r == make_channel_update_embed(channel_before, channel_after, order)
       IN  IF r.raised # "" THEN Raise(e, "server_log", r.raised)
           ELSE IF r.embed.type = "None" THEN Finish(e, "server_log", "None")
           ELSE CallSendLog(e, "server_log", r.embed)
    /\ UNCHANGED <<methodEqByIdentity, fmt, store, guildChannels, outbox, bot>>

\* MessageLog.on_voice_state_update, up to its first await
on_voice_state_update(e, before, after) ==
    /\ handlers[e].pc = "idle"
    /\ LET embed == VoiceEmbed(before, after)
       IN  IF embed.type = "None" THEN Finish(e, "voice_log", "None")
           ELSE CallSendLog(e, "voice_log", embed)
    /\ UNCHANGED <<methodEqByIdentity, fmt, store, guildChannels, outbox, bot>>

\* the store answers the lookup, or the lookup fails
StoreAnswers(e, ok) ==
    /\ handlers[e].pc = "get_log_channel"
    /\ IF ok
       THEN handlers' = [handlers EXCEPT ![e] = [@ EXCEPT
                            !.pc = "send_log", !.log_id = get_log_channel(handlers[e].cog)]]
       ELSE Raise(e, handlers[e].cog, "StoreError")
    /\ UNCHANGED <<methodEqByIdentity, fmt, store, guildChannels, outbox, bot>>

\* send_log from the answer of the store to "await channel.send(...)" or "return False"
Resolve(e, log_channel) ==
    IF log_channel = {}
    THEN handlers' = [handlers EXCEPT ![e] = [@ EXCEPT !.pc = "done", !.ret = "False"]]
    ELSE handlers' = [handlers EXCEPT ![e] = [@ EXCEPT
                         !.pc = "send", !.channel = log_channel, !.sends = @ + 1]]

\* send_log without its "if server_log_channel is None: return False"
ServerLog_send_log_without_check(e) ==
    /\ handlers[e].pc = "send_log" /\ handlers[e].cog = "server_log"
    /\ handlers' = [handlers EXCEPT ![e] = [@ EXCEPT
           !.pc = "send", !.channel = {int(handlers[e].log_id)}, !.sends = @ + 1]]
    /\ UNCHANGED <<methodEqByIdentity, fmt, store, guildChannels, outbox, bot>>

\* ServerLog.send_log
ServerLog_send_log(e) ==
    /\ handlers[e].pc = "send_log" /\ handlers[e].cog = "server_log"
    /\ Resolve(e, get_channel(int(handlers[e].log_id)))
    /\ UNCHANGED <<methodEqByIdentity, fmt, store, guildChannels, outbox, bot>>

\* send_log returning True where it is to return False
MessageLog_send_log_returns_true(e) ==
    /\ handlers[e].pc = "send_log" /\ handlers[e].cog = "voice_log"
    /\ LET mod_log_channel == get_channel(handlers[e].log_id)
       IN  IF mod_log_channel = {}
           THEN handlers' = [handlers EXCEPT ![e] = [@ EXCEPT !.pc = "done", !.ret = "True"]]
           ELSE Resolve(e, mod_log_channel)
    /\ UNCHANGED <<methodEqByIdentity, fmt, store, guildChannels, outbox, bot>>

\* MessageLog.send_log
MessageLog_send_log(e) ==
    /\ handlers[e].pc = "send_log" /\ handlers[e].cog = "voice_log"
    /\ Resolve(e, get_channel(handlers[e].log_id))
    /\ UNCHANGED <<methodEqByIdentity, fmt, store, guildChannels, outbox, bot>>

\* Channel.send completes (send_log returns True) or raises (nothing catches it)
ChannelSend(e, ok) ==
    /\ handlers[e].pc = "send"
    /\ IF ok
       THEN /\ outbox' = outbox \cup {[event |-> e, channel |-> handlers[e].channel,
                                        embed |-> handlers[e].embed]}
            /\ handlers' = [handlers EXCEPT ![e] = [@ EXCEPT !.pc = "done", !.ret = "True"]]
       ELSE /\ Raise(e, handlers[e].cog, "HTTPException")
            /\ UNCHANGED outbox
    /\ UNCHANGED <<methodEqByIdentity, fmt, store, guildChannels, bot>>

\* the guild's configuration and channels change while handlers are suspended
SetLogChannel(category, id) ==
    /\ store[category] # id
    /\ store' = [store EXCEPT ![category] = id]
    /\ UNCHANGED <<methodEqByIdentity, fmt, guildChannels, handlers, outbox, bot>>

ChannelDeleted(id) ==
    /\ id \in guildChannels
    /\ guildChannels' = guildChannels \ {id}
    /\ UNCHANGED <<methodEqByIdentity, fmt, store, handlers, outbox, bot>>

ChannelCreated(id) ==
    /\ id \notin guildChannels
    /\ guildChannels' = guildChannels \cup {id}
    /\ UNCHANGED <<methodEqByIdentity, fmt, store, handlers, outbox, bot>>

ChannelUpdateEvent ==
    \E e \in EventIds, u \in ChannelUpdates :
        \E order \in Orders(all_overwrites(u[1], u[2])) :
            on_guild_channel_update(e, u[1], u[2], order)
VoiceStateEvent ==
    \E e \in EventIds, u \in VoiceUpdates : on_voice_state_update(e, u[1], u[2])
StoreStep == \E e \in EventIds, ok \in BOOLEAN : StoreAnswers(e, ok)
ServerSendLogStep == \E e \in EventIds : ServerLog_send_log(e)
VoiceSendLogStep == \E e \in EventIds : MessageLog_send_log(e)
TransportStep == \E e \in EventIds, ok \in BOOLEAN : ChannelSend(e, ok)
ConfigStep == \E c \in LogCategories, id \in ChannelIds \cup {NoChannel} : SetLogChannel(c, id)
DeleteStep == \E id \in ChannelIds : ChannelDeleted(id)
CreateStep == \E id \in ChannelIds : ChannelCreated(id)

Next ==
    \/ ChannelUpdateEvent
    \/ VoiceStateEvent
    \/ StoreStep
    \/ ServerSendLogStep
    \/ VoiceSendLogStep
    \/ TransportStep
    \/ ConfigStep
    \/ DeleteStep
    \/ CreateStep

Spec == Init /\ [][Next]_vars

----------------------------------------------------------------------------
(* What the claims about the listeners speak of *)

Messages(e) == {m \in outbox : m.event = e}
\* the handler of e is past the answer of the store
Answered(e) ==
    \/ handlers[e].pc \in {"send_log", "send"}
    \/ handlers[e].pc = "done" /\ handlers[e].ret # "None"
    \/ handlers[e].pc = "raised" /\ handlers[e].exc = "HTTPException"
\* the step is one of the handler of e
Steps(e) == handlers'[e] # handlers[e]

C4_TrueIffResolved ==
    /\ [](\A e \in EventIds :
            /\ handlers[e].ret = "True" =>
                  /\ handlers[e].sends = 1
                  /\ handlers[e].channel = {handlers[e].log_id}
                  /\ Messages(e) = {[event |-> e, channel |-> handlers[e].channel,
                                     embed |-> handlers[e].embed]}
            /\ handlers[e].ret = "False" => (handlers[e].sends = 0 /\ Messages(e) = {})
            /\ Messages(e) # {} => handlers[e].ret = "True")
    /\ [][\A e \in EventIds :
            /\ (handlers[e].pc = "send_log" /\ Steps(e)) =>
                  IF handlers[e].log_id \in guildChannels
                  THEN /\ handlers'[e].pc = "send" /\ handlers'[e].sends = 1
                       /\ handlers'[e].channel = {handlers[e].log_id}
                  ELSE /\ handlers'[e].pc = "done" /\ handlers'[e].ret = "False"
                       /\ handlers'[e].sends = 0 /\ outbox' = outbox
            /\ (handlers[e].pc = "send" /\ Steps(e)) =>
                  \/ handlers'[e].pc = "done" /\ handlers'[e].ret = "True"
                  \/ handlers'[e].pc = "raised" /\ handlers'[e].exc = "HTTPException"]_vars

C4_Witness ==
    \E e, f \in EventIds :
        /\ handlers[e].cog = "voice_log" /\ handlers[e].ret = "True" /\ Messages(e) # {}
        /\ handlers[f].cog = "server_log" /\ handlers[f].ret = "False"
        /\ handlers[f].log_id \in ChannelIds

\* C6: under any interleaving every event causes at most one message, sent only
\* if its formatter produced an embed and its log channel was resolved; a step of
\* one handler changes no other handler, nor the store or the channel list.
C6_AtMostOneMessagePerEvent ==
    /\ [](\A e \in EventIds :
            /\ handlers[e].sends <= 1
            /\ Cardinality(Messages(e)) <= 1
            /\ (handlers[e].sends = 1 \/ Messages(e) # {}) =>
                  (handlers[e].embed.type = "Embed" /\ handlers[e].channel # {})
            /\ \A m \in Messages(e) : m.embed = handlers[e].embed)
    /\ [][(handlers' # handlers) =>
            /\ Cardinality({e \in EventIds : Steps(e)}) = 1
            /\ UNCHANGED <<store, guildChannels>>
            /\ Cardinality(outbox' \ outbox) <= 1 /\ outbox \subseteq outbox']_vars

C6_Witness ==
    /\ Cardinality(outbox) = MaxEvents
    /\ \E e, f \in EventIds :
          handlers[e].cog = "server_log" /\ handlers[f].cog = "voice_log"

----------------------------------------------------------------------------
(* SpecSudo: the sudo command group *)

\* config.devs, and the users that invoke commands
Devs == {1, 3}
Users == {1, 2, 3, 4}

\* bot.extension_list, and the modules that exist
extension_list ==
    <<"bot.cogs.sudo", "bot.cogs.logging.server_log", "bot.cogs.logging.voice_log">>
Available == Range(extension_list)
\* the extension argument of load, reload and unload; "" is no argument
ExtensionArgs == {"", "sudo", "logging.server_log", "logging.voice_log", "missing"}

\* Sudo.cog_check without the membership test
cog_check_allows_all(author) == TRUE

\* Sudo.cog_check: True for a dev; otherwise it sends the owner-only embed and
\* returns None, and the framework does not run the command
cog_check(author) == author \in Devs

OwnerOnly == "This is an Owner-only command, you cannot invoke this."

\* extension = self.bot.extension_list if not extension else [f"bot.cogs.{extension}"]
Targets(extension) ==
    IF extension = "" THEN extension_list ELSE << "bot.cogs." \o extension >>

\* bot.load_extension: ExtensionAlreadyLoaded, ExtensionNotFound are DiscordExceptions
CanLoad(loaded, ext) == ext \in Available /\ ext \notin loaded
\* bot.unload_extension: ExtensionNotLoaded is a DiscordException
CanUnload(loaded, ext) == ext \in loaded

Ok == "OK"
Traceback == "traceback"

RECURSIVE LoadAll(_, _)
LoadAll(exts, b) ==
    IF exts = <<>> THEN b
    ELSE LoadAll(Tail(exts),
             IF CanLoad(b.loaded, Head(exts))
             THEN [b EXCEPT !.loaded = @ \cup {Head(exts)}, !.replies = Append(@, Ok)]
             ELSE [b EXCEPT !.replies = Append(@, Traceback)])

RECURSIVE ReloadAll(_, _)
ReloadAll(exts, b) ==
    IF exts = <<>> THEN b
    ELSE ReloadAll(Tail(exts),
             IF ~CanUnload(b.loaded, Head(exts))
             THEN [b EXCEPT !.replies = Append(@, Traceback)]
             ELSE IF CanLoad(b.loaded \ {Head(exts)}, Head(exts))
             THEN [b EXCEPT !.replies = Append(@, Ok)]
             ELSE [b EXCEPT !.loaded = @ \ {Head(exts)}, !.replies = Append(@, Traceback)])

RECURSIVE UnloadAll(_, _)
UnloadAll(exts, b) ==
    IF exts = <<>> THEN b
    ELSE UnloadAll(Tail(exts),
             IF CanUnload(b.loaded, Head(exts))
             THEN [b EXCEPT !.loaded = @ \ {Head(exts)}, !.replies = Append(@, Ok)]
             ELSE [b EXCEPT !.replies = Append(@, Traceback)])

\* the command is called: the replies of this invocation start empty
Called(author, command) ==
    [bot EXCEPT !.author = author, !.command = command, !.replies = <<>>]

\* the framework runs a sudo subcommand: the bot is running, the cog is loaded;
\* the body runs (ran is the bot after it) only if cog_check passes
Invoke(author, command, ran) ==
    /\ ~bot.closed
    /\ "bot.cogs.sudo" \in bot.loaded
    /\ bot' = IF cog_check(author)
              THEN ran
              ELSE [Called(author, command) EXCEPT !.replies = <<OwnerOnly>>]
    /\ UNCHANGED <<methodEqByIdentity, fmt, store, guildChannels, handlers, outbox>>

\* Sudo.shutdown
shutdown(author) ==
    Invoke(author, "shutdown",
        IF author \in Devs
        THEN [Called(author, "shutdown") EXCEPT !.replies = <<"reaction">>, !.closed = TRUE]
        ELSE Called(author, "shutdown"))

\* Sudo.restart
restart(author) ==
    Invoke(author, "restart",
        IF author \in Devs
        THEN [Called(author, "restart") EXCEPT
                 !.replies = <<"reaction">>, !.closed = TRUE, !.started = TRUE]
        ELSE Called(author, "restart"))

\* Sudo.load
load(author, extension) ==
    Invoke(author, "load", LoadAll(Targets(extension), Called(author, "load")))

\* Sudo.reload
reload(author, extension) ==
    Invoke(author, "reload", ReloadAll(Targets(extension), Called(author, "reload")))

\* Sudo.unload
unload(author, extension) ==
    Invoke(author, "unload", UnloadAll(Targets(extension), Called(author, "unload")))

\* Sudo.stats
stats(author) ==
    Invoke(author, "stats", [Called(author, "stats") EXCEPT !.replies = <<"BOT STATISTICS">>])

InitSudo ==
    /\ methodEqByIdentity = TRUE
    /\ fmt = IdleFmt
    /\ store = <<>>
    /\ guildChannels = {}
    /\ handlers = <<>>
    /\ outbox = {}
    /\ bot = IdleBot

NextSudo ==
    \/ \E author \in Users : shutdown(author)
    \/ \E author \in Users : restart(author)
    \/ \E author \in Users, extension \in ExtensionArgs : load(author, extension)
    \/ \E author \in Users, extension \in ExtensionArgs : reload(author, extension)
    \/ \E author \in Users, extension \in ExtensionArgs : unload(author, extension)
    \/ \E author \in Users : stats(author)

SpecSudo == InitSudo /\ [][NextSudo]_vars

\* C8: a sudo invocation by a user who is not in config.devs never closes the bot,
\* starts a process, or loads or unloads an extension.
C8_SudoIsOwnerGated ==
    [][(bot' # bot /\ bot'.author \notin Devs) =>
          /\ bot'.closed = bot.closed
          /\ bot'.started = bot.started
          /\ bot'.loaded = bot.loaded
          /\ bot'.replies = <<OwnerOnly>>]_vars

C8_Witness ==
    /\ bot.author \notin Devs /\ bot.author \in Users
    /\ bot.command = "unload"
    /\ bot.replies = <<OwnerOnly>>
    /\ bot.loaded # IdleBot.loaded /\ ~bot.closed

====
